---- MODULE Spec2Model ----
(***************************************************************************)
(* Worklog feature of hr_time: the repository (data access), the service   *)
(* (business rule) and the Worklog document hook, over an abstract record  *)
(* store, a wall clock and a session.                                      *)
(*                                                                         *)
(* Time is counted in ticks (the clock's resolution, one microsecond in    *)
(* the source); a date is a day number and a datetime is a tick number,    *)
(* day * TicksPerDay + time of day.  A text is a sequence of characters.   *)
(* Python's None is the value None for identifiers and an empty sequence   *)
(* for optional numbers and records.                                       *)
(***************************************************************************)
EXTENDS Integers, Sequences, FiniteSets

VARIABLES now, store, last

vars == <<now, store, last>>

(***************************************************************************)
(* Bounds of the model.                                                    *)
(***************************************************************************)
\* the clock stops advancing at this tick
MaxTime == 2
\* ticks in one day (86400 * 10^6 microseconds in the source)
TicksPerDay == 2
\* rows the store can hold
MaxStore == 2
\* ticks the clock may advance between two reads made by one call
MaxDrift == 1

(***************************************************************************)
(* Values.                                                                 *)
(***************************************************************************)
None == "None"

Employees == {"EMP001", "EMP002"}

\* the characters str.strip() removes (those str.isspace() is true of); one
\* that has no escape of its own is written as Python writes it
Whitespace ==
  {"\t", "\n", "\\x0b", "\f", "\r", "\\x1c", "\\x1d", "\\x1e", "\\x1f", " ",
   "\\x85", "\\xa0", "\\u1680", "\\u2000", "\\u2001", "\\u2002", "\\u2003",
   "\\u2004", "\\u2005", "\\u2006", "\\u2007", "\\u2008", "\\u2009", "\\u200a",
   "\\u2028", "\\u2029", "\\u202f", "\\u205f", "\\u3000"}

\* what callers submit: an empty description '', a blank one ' ', and a
\* description 'a ' with a trailing blank, a task and a ticket link
Submissions ==
  { [worklog_text |-> << >>, task |-> "TASK001", ticket_link |-> None],
    [worklog_text |-> <<" ">>, task |-> None, ticket_link |-> None],
    [worklog_text |-> <<"a", " ">>, task |-> "TASK001",
     ticket_link |-> "github.com/PR/1"] }

Days == 0 .. (MaxTime \div TicksPerDay)

\* Messages.Worklog.* and Messages.Common.*, the texts the code reports
EMPTY_TASK_DESC == "Messages.Worklog.EMPTY_TASK_DESC"
ERR_CREATE_WORKLOG_FUTURE_TIME == "Messages.Worklog.ERR_CREATE_WORKLOG_FUTURE_TIME"
SUCCESS_WORKLOG_CREATION == "Messages.Worklog.SUCCESS_WORKLOG_CREATION"
NOT_FOUND_EMPLOYEE == "Messages.Employee.NOT_FOUND_EMPLOYEE"
ERR_DB == "Messages.Common.ERR_DB"
ERR_VALIDATION == "store validation failed"
ERR_ROLLBACK == "rollback failed"

(***************************************************************************)
(* Response envelope (api/shared/utils/response.py).                       *)
(***************************************************************************)
STATUS_SUCCESS == "success"
STATUS_ERROR == "error"

Response(status, message, data) ==
  [status |-> status, message |-> message, data |-> data]

ResponseSuccess(message, data) == Response(STATUS_SUCCESS, message, data)

ResponseError(message, data) == Response(STATUS_ERROR, message, data)

\* no envelope: the call raised, or the operation returns no envelope
NoResponse == Response("none", "", << >>)

(***************************************************************************)
(* Response.to_json: json.dumps(asdict(self)).                             *)
(*                                                                         *)
(* A Python value that travels in an envelope is a record tagged with its  *)
(* type; a dict is the sequence of its items, each a pair <<key, value>>,  *)
(* in insertion order, its keys all different; a list and a tuple are the  *)
(* sequence of their elements.  A JSON text is the sequence of its tokens. *)
(***************************************************************************)
PyNone == [type |-> "NoneType"]
PyStr(s) == [type |-> "str", str |-> s]
PyInt(n) == [type |-> "int", int |-> n]
PyBool(b) == [type |-> "bool", bool |-> b]
\* a float is held by its repr, the text float.__repr__ gives
PyFloat(repr) == [type |-> "float", repr |-> repr]
PyDatetime(t) == [type |-> "datetime", t |-> t]
PyDict(items) == [type |-> "dict", items |-> items]
PyList(elems) == [type |-> "list", elems |-> elems]
PyTuple(elems) == [type |-> "tuple", elems |-> elems]

\* asdict leaving the data field out of the dict when it is None
asdict_omitting_absent_data(r) ==
  PyDict(<< <<PyStr("status"), PyStr(r.status)>>,
            <<PyStr("message"), PyStr(r.message)>> >>
         \o (IF Len(r.data) = 0 THEN << >> ELSE << <<PyStr("data"), r.data[1]>> >>))

\* dataclasses.asdict(self): the fields in declaration order (the class
\* attributes STATUS_SUCCESS and STATUS_ERROR are not fields); the dicts, lists
\* and tuples in data are copied as they are
asdict(r) ==
  PyDict(<< <<PyStr("status"), PyStr(r.status)>>,
            <<PyStr("message"), PyStr(r.message)>>,
            <<PyStr("data"), IF Len(r.data) = 0 THEN PyNone ELSE r.data[1]>> >>)

\* the decimal digits
Digits == <<"0", "1", "2", "3", "4", "5", "6", "7", "8", "9">>

\* str(n) of an int
RECURSIVE str_int(_)
str_int(n) ==
  IF n < 0 THEN "-" \o str_int(0 - n)
  ELSE IF n < Len(Digits) THEN Digits[n + 1]
  ELSE str_int(n \div Len(Digits)) \o Digits[(n % Len(Digits)) + 1]

\* tokens of a JSON text
JsonToken(t) == [t |-> t]
JsonString(s) == [t |-> "string", s |-> s]
JsonNumber(n) == [t |-> "number", n |-> n]
JsonFloat(repr) == [t |-> "float", repr |-> repr]

\* json.encoder floatstr: the text of a float, float.__repr__ when it is
\* finite
floatstr(repr) ==
  CASE repr = "nan" -> "NaN"
    [] repr = "inf" -> "Infinity"
    [] repr = "-inf" -> "-Infinity"
    [] OTHER -> repr

\* the float json.loads reads from such a text, held by its repr
parse_float(text) ==
  CASE text = "NaN" -> "nan"
    [] text = "Infinity" -> "inf"
    [] text = "-Infinity" -> "-inf"
    [] OTHER -> text

\* the outcome of an encoding step: the tokens, or the TypeError raised
Encoded(text) == [exc |-> "none", msg |-> "", text |-> text]
NotSerializable(v) ==
  [exc |-> "TypeError", msg |-> "Object of type " \o v.type \o " is not JSON serializable",
   text |-> << >>]

\* the name of a value's type with its module, as the refusal of a key spells
\* it
tp_name(v) == IF v.type = "datetime" THEN "datetime.datetime" ELSE v.type

\* the TypeError json.dumps raises for a key it does not accept
KeyRefused(k) ==
  [exc |-> "TypeError",
   msg |-> "keys must be str, int, float, bool or None, not " \o tp_name(k),
   text |-> << >>]

\* json.dumps of a dict key: a str as it is, an int as its decimal text, a
\* float as its repr (NaN, Infinity, -Infinity when it is not finite), a bool
\* as true or false, None as null; any other key is refused
dumps_key(k) ==
  CASE k.type = "str" -> Encoded(<<JsonString(k.str)>>)
    [] k.type = "int" -> Encoded(<<JsonString(str_int(k.int))>>)
    [] k.type = "float" -> Encoded(<<JsonString(floatstr(k.repr))>>)
    [] k.type = "bool" -> Encoded(<<JsonString(IF k.bool THEN "true" ELSE "false")>>)
    [] k.type = "NoneType" -> Encoded(<<JsonString("null")>>)
    [] OTHER -> KeyRefused(k)

\* one member after the members before it: k and v are its encoded key and
\* value, rest the encoded members that follow
dumps_member(k, v, rest) ==
  IF k.exc # "none" THEN k
  ELSE IF v.exc # "none" THEN v
  ELSE IF rest.exc # "none" THEN rest
  ELSE Encoded(k.text \o <<JsonToken(":")>> \o v.text
               \o (IF Len(rest.text) = 0 THEN << >> ELSE <<JsonToken(",")>>)
               \o rest.text)

\* one element of an array: v is the encoded element, rest the encoded
\* elements that follow
dumps_element(v, rest) ==
  IF v.exc # "none" THEN v
  ELSE IF rest.exc # "none" THEN rest
  ELSE Encoded(v.text \o (IF Len(rest.text) = 0 THEN << >> ELSE <<JsonToken(",")>>)
               \o rest.text)

\* json.dumps(v): a dict as an object, a list and a tuple as an array
RECURSIVE dumps(_)
RECURSIVE dumps_items(_)
RECURSIVE dumps_elems(_)
dumps(v) ==
  CASE v.type = "NoneType" -> Encoded(<<JsonToken("null")>>)
    [] v.type = "str" -> Encoded(<<JsonString(v.str)>>)
    [] v.type = "int" -> Encoded(<<JsonNumber(v.int)>>)
    [] v.type = "float" -> Encoded(<<JsonFloat(floatstr(v.repr))>>)
    [] v.type = "bool" -> Encoded(<<JsonToken(IF v.bool THEN "true" ELSE "false")>>)
    [] v.type = "dict" ->
         LET m == dumps_items(v.items)
         IN  IF m.exc # "none" THEN m
             ELSE Encoded(<<JsonToken("{")>> \o m.text \o <<JsonToken("}")>>)
    [] v.type \in {"list", "tuple"} ->
         LET m == dumps_elems(v.elems)
         IN  IF m.exc # "none" THEN m
             ELSE Encoded(<<JsonToken("[")>> \o m.text \o <<JsonToken("]")>>)
    [] OTHER -> NotSerializable(v)
dumps_items(items) ==
  IF Len(items) = 0 THEN Encoded(<< >>)
  ELSE dumps_member(dumps_key(Head(items)[1]), dumps(Head(items)[2]),
                    dumps_items(Tail(items)))
dumps_elems(elems) ==
  IF Len(elems) = 0 THEN Encoded(<< >>)
  ELSE dumps_element(dumps(Head(elems)), dumps_elems(Tail(elems)))

\* Response.to_json
to_json(r) == dumps(asdict(r))

\* d[k] = v on the items of a dict: an existing key keeps its place
RECURSIVE dict_set(_, _, _)
dict_set(items, k, v) ==
  IF Len(items) = 0 THEN << <<k, v>> >>
  ELSE IF Head(items)[1] = k THEN << <<k, v>> >> \o Tail(items)
  ELSE <<Head(items)>> \o dict_set(Tail(items), k, v)

\* json.loads: the value that starts at token i of text, and the index of the
\* token after it
RECURSIVE loads_value(_, _)
RECURSIVE loads_members(_, _, _)
RECURSIVE loads_elements(_, _, _)
loads_value(text, i) ==
  CASE text[i].t = "null" -> [value |-> PyNone, next |-> i + 1]
    [] text[i].t = "string" -> [value |-> PyStr(text[i].s), next |-> i + 1]
    [] text[i].t = "number" -> [value |-> PyInt(text[i].n), next |-> i + 1]
    [] text[i].t = "float" ->
         [value |-> PyFloat(parse_float(text[i].repr)), next |-> i + 1]
    [] text[i].t = "true" -> [value |-> PyBool(TRUE), next |-> i + 1]
    [] text[i].t = "false" -> [value |-> PyBool(FALSE), next |-> i + 1]
    [] text[i].t = "{" -> loads_members(text, i + 1, << >>)
    [] text[i].t = "[" -> loads_elements(text, i + 1, << >>)
loads_members(text, i, items) ==
  IF text[i].t = "}" THEN [value |-> PyDict(items), next |-> i + 1]
  ELSE IF text[i].t = "," THEN loads_members(text, i + 1, items)
  ELSE LET v == loads_value(text, i + 2)
       IN  loads_members(text, v.next, dict_set(items, PyStr(text[i].s), v.value))
loads_elements(text, i, elems) ==
  IF text[i].t = "]" THEN [value |-> PyList(elems), next |-> i + 1]
  ELSE IF text[i].t = "," THEN loads_elements(text, i + 1, elems)
  ELSE LET v == loads_value(text, i)
       IN  loads_elements(text, v.next, Append(elems, v.value))

\* json.loads(text)
loads(text) == loads_value(text, 1).value

\* the messages and the data envelopes are built with: no data, {}, dicts
\* of str keys holding scalars, lists and dicts, dicts with an int, a float,
\* a bool or None as a key (at the top and nested), a dict whose keys 1 and
\* '1' have the same text, a dict holding a tuple, and dicts holding a
\* datetime or a tuple where JSON has no place for it
EnvelopeMessages ==
  {SUCCESS_WORKLOG_CREATION, EMPTY_TASK_DESC, ERR_CREATE_WORKLOG_FUTURE_TIME,
   NOT_FOUND_EMPLOYEE, ERR_DB}

EnvelopeData ==
  { << >>,
    <<PyDict(<< >>)>>,
    <<PyDict(<< <<PyStr("task"), PyStr("TASK001")>>, <<PyStr("ticket_link"), PyNone>>,
                <<PyStr("count"), PyInt(1)>> >>)>>,
    <<PyDict(<< <<PyStr("employee"), PyStr("EMP001")>> >>)>>,
    <<PyDict(<< <<PyInt(1), PyStr("TASK001")>> >>)>>,
    <<PyDict(<< <<PyInt(0 - 1), PyBool(TRUE)>>, <<PyNone, PyFloat("1.5")>> >>)>>,
    <<PyDict(<< <<PyBool(FALSE), PyInt(0 - 1)>>, <<PyFloat("1.5"), PyNone>> >>)>>,
    <<PyDict(<< <<PyFloat("nan"), PyFloat("inf")>>, <<PyFloat("-inf"), PyNone>> >>)>>,
    <<PyDict(<< <<PyStr("worklogs"),
                  PyList(<< PyDict(<< <<PyStr("task"), PyStr("TASK001")>>,
                                      <<PyStr("hours"), PyFloat("1.5")>> >>),
                            PyList(<< PyInt(1), PyBool(FALSE), PyNone >>) >>)>> >>)>>,
    <<PyDict(<< <<PyStr("range"), PyTuple(<< PyInt(1), PyInt(2) >>)>> >>)>>,
    <<PyDict(<< <<PyInt(1), PyStr("a")>>, <<PyStr("1"), PyStr("b")>>,
                <<PyStr("task"), PyNone>> >>)>>,
    <<PyDict(<< <<PyStr("by_day"), PyDict(<< <<PyInt(1), PyStr("a")>> >>)>> >>)>>,
    <<PyDict(<< <<PyDatetime(0), PyNone>> >>)>>,
    <<PyDict(<< <<PyTuple(<< PyInt(1), PyInt(2) >>), PyNone>> >>)>>,
    <<PyDict(<< <<PyStr("log_time"), PyDatetime(0)>> >>)>>,
    <<PyDict(<< <<PyStr("worklogs"),
                  PyList(<< PyDict(<< <<PyStr("log_time"), PyDatetime(0)>> >>) >>)>> >>)>> }

(***************************************************************************)
(* Python helpers.                                                         *)
(***************************************************************************)
\* str.lstrip(): drop leading whitespace
RECURSIVE lstrip(_)
lstrip(s) ==
  IF Len(s) = 0 THEN s
  ELSE IF Head(s) \in Whitespace THEN lstrip(Tail(s)) ELSE s

\* str.rstrip(): drop trailing whitespace
RECURSIVE rstrip(_)
rstrip(s) ==
  IF Len(s) = 0 THEN s
  ELSE IF s[Len(s)] \in Whitespace THEN rstrip(SubSeq(s, 1, Len(s) - 1)) ELSE s

\* str.strip()
strip(s) == rstrip(lstrip(s))

\* truth value of a str or of None: None and '' are false
Truthy(v) == v # None /\ v # ""

\* datetime.combine(date, time): the tick of a time of day on a date
combine(date, timeOfDay) == date * TicksPerDay + timeOfDay

\* time(0, 0, 0) and time(23, 59, 59, 999999): first and last tick of a day
TimeMin == 0
TimeMax == TicksPerDay - 1

\* the date of a datetime (date.today() is DateOf of the clock)
DateOf(t) == t \div TicksPerDay

(***************************************************************************)
(* The record store (frappe) and the Worklog document hook.                *)
(*                                                                         *)
(* A row is a persisted worklog.  A doc is a record being written: its     *)
(* log_time is << >> while unset and <<t>> once set.  What the store does  *)
(* during one call is an input of the call, a fault: where it raises (at), *)
(* what it raises (kind), whether the row had reached the table when save  *)
(* raised (wrote), and whether rollback itself raises.                     *)
(***************************************************************************)
NoFault == [at |-> "none", kind |-> "none", wrote |-> FALSE, rollback |-> "ok"]

Faults ==
  {NoFault}
  \cup { [at |-> "new_doc", kind |-> "Exception", wrote |-> FALSE, rollback |-> "ok"] }
  \cup { [at |-> "save", kind |-> "ValidationError", wrote |-> w, rollback |-> "ok"] :
         w \in BOOLEAN }
  \cup { [at |-> "save", kind |-> "Exception", wrote |-> TRUE, rollback |-> r] :
         r \in {"ok", "raises"} }

\* str(e) of the failure the store raises
FaultMessage(fault) ==
  IF fault.kind = "ValidationError" THEN ERR_VALIDATION ELSE ERR_DB

\* frappe.new_doc(doctype): a fresh document, or the store's failure
new_doc(fault) ==
  IF fault.at = "new_doc"
  THEN [exc |-> fault.kind, msg |-> FaultMessage(fault)]
  ELSE [exc |-> "none", msg |-> ""]

\* the persisted form of a document
Row(doc) ==
  [employee |-> doc.employee, log_time |-> doc.log_time[1],
   task_desc |-> doc.task_desc, task |-> doc.task, ticket_link |-> doc.ticket_link]

\* FrappeUtils.throw_error_msg(message): aborts with a validation failure
throw_error_msg(message, doc) ==
  [exc |-> "ValidationError", msg |-> message, doc |-> doc, session |-> 1]

\* Worklog.set_employee_from_user: sess is the Employee whose user_id is the
\* session user, None when there is none
set_employee_from_user(doc, sess) ==
  IF Truthy(sess)
  THEN [exc |-> "none", msg |-> "", doc |-> [doc EXCEPT !.employee = sess], session |-> 1]
  ELSE throw_error_msg(NOT_FOUND_EMPLOYEE, doc)

\* before_save without the test of self.log_time: the clock always wins
before_save_overwrites_log_time(doc, clock, sess) ==
  LET d1 == [doc EXCEPT !.log_time = <<clock>>]
  IN  IF ~Truthy(d1.employee)
      THEN set_employee_from_user(d1, sess)
      ELSE [exc |-> "none", msg |-> "", doc |-> d1, session |-> 0]

\* Worklog.before_save
before_save(doc, clock, sess) ==
  LET d1 == IF Len(doc.log_time) = 0 THEN [doc EXCEPT !.log_time = <<clock>>] ELSE doc
  IN  IF ~Truthy(d1.employee)
      THEN set_employee_from_user(d1, sess)
      ELSE [exc |-> "none", msg |-> "", doc |-> d1, session |-> 0]

\* doc.save(): the hook, then the write; a failing save may have written the row
save(st, doc, clock, sess, fault) ==
  LET h == before_save(doc, clock, sess)
  IN  IF h.exc # "none"
      THEN [exc |-> h.exc, msg |-> h.msg, store |-> st, session |-> h.session]
      ELSE IF fault.at = "save"
      THEN [exc |-> fault.kind, msg |-> FaultMessage(fault),
            store |-> IF fault.wrote THEN Append(st, Row(h.doc)) ELSE st,
            session |-> h.session]
      ELSE [exc |-> "none", msg |-> "", store |-> Append(st, Row(h.doc)),
            session |-> h.session]

\* frappe.db.rollback(): discards what the transaction in flight wrote;
\* txnStart is the number of rows the store held when the call began
rollback(st, txnStart, fault) ==
  IF fault.rollback = "raises"
  THEN [exc |-> "Exception", msg |-> ERR_ROLLBACK, store |-> st]
  ELSE [exc |-> "none", msg |-> "", store |-> SubSeq(st, 1, txnStart)]

\* get_all taking the end of a between range as exclusive
get_all_exclusive_end(st, employee, lo, hi) ==
  SelectSeq(st, LAMBDA r : r.employee = employee /\ lo <= r.log_time /\ r.log_time < hi)

\* frappe.get_all(doctype, fields, filters) with the filters the repository
\* builds: employee equal, log_time between lo and hi, both inclusive
get_all(st, employee, lo, hi) ==
  SelectSeq(st, LAMBDA r : r.employee = employee /\ lo <= r.log_time /\ r.log_time <= hi)

\* WorklogRepository.get_worklogs(filters)
get_worklogs(st, employee, lo, hi) == get_all(st, employee, lo, hi)

(***************************************************************************)
(* Worklog repository (api/worklog/repository.py).                         *)
(***************************************************************************)
\* the Worklog value object
Worklog(employee_id, log_time, task_desc, task, ticket_link) ==
  [employee_id |-> employee_id, log_time |-> log_time, task_desc |-> task_desc,
   task |-> task, ticket_link |-> ticket_link]

\* WorklogRepository._build_from_doc
build_from_doc(doc) ==
  Worklog(doc.employee, doc.log_time, doc.task_desc, doc.task, doc.ticket_link)

\* WorklogRepository.get_worklogs_of_employee_on_date
get_worklogs_of_employee_on_date(st, employee_id, date) ==
  LET date_start == combine(date, TimeMin)
      date_end == combine(date, TimeMax)
      docs == get_worklogs(st, employee_id, date_start, date_end)
  IN  IF Len(docs) = 0 THEN << >>
      ELSE [i \in 1 .. Len(docs) |-> build_from_doc(docs[i])]

\* what the try block of create_worklog did: exc is "return" when it returned
\* an envelope, else the kind of the failure that left it (msg its text);
\* failed_at is the store operation that raised, "none" when none did
TryResult(exc, msg, response, st, newDocCalls, saveCalls, saved, failed_at) ==
  [exc |-> exc, msg |-> msg, response |-> response, store |-> st,
   new_doc |-> newDocCalls, save |-> saveCalls, saved |-> saved,
   failed_at |-> failed_at]

\* the document create_worklog fills in
NewWorklogDoc(employee_id, log_time, worklog_text, task, ticket_link) ==
  [employee |-> employee_id, log_time |-> <<log_time>>,
   task_desc |-> worklog_text, task |-> task, ticket_link |-> ticket_link]

\* create_worklog, from new_doc to the success envelope: n is what new_doc
\* did and s what save did
create_and_save(st, doc, n, s) ==
  IF n.exc # "none"
  THEN TryResult(n.exc, n.msg, NoResponse, st, 1, 0, << >>, "new_doc")
  ELSE IF s.exc # "none"
  THEN TryResult(s.exc, s.msg, NoResponse, s.store, 1, 1, <<doc>>, "save")
  ELSE TryResult("return", "", ResponseSuccess(SUCCESS_WORKLOG_CREATION, << >>),
                 s.store, 1, 1, <<doc>>, "none")

\* create_worklog_try without the check of log_time against the clock
create_worklog_try_unchecked_time(st, employee_id, log_time, worklog_text, task, ticket_link, clock, sess, fault) ==
  IF Len(worklog_text) = 0
  THEN TryResult("return", "", ResponseError(EMPTY_TASK_DESC, << >>), st,
                 0, 0, << >>, "none")
  ELSE create_and_save(
         st, NewWorklogDoc(employee_id, log_time, worklog_text, task, ticket_link),
         new_doc(fault),
         save(st, NewWorklogDoc(employee_id, log_time, worklog_text, task, ticket_link),
              clock, sess, fault))

\* create_worklog_try rejecting a log_time equal to the clock as well
create_worklog_try_rejects_now(st, employee_id, log_time, worklog_text, task, ticket_link, clock, sess, fault) ==
  IF Len(worklog_text) = 0
  THEN TryResult("return", "", ResponseError(EMPTY_TASK_DESC, << >>), st,
                 0, 0, << >>, "none")
  ELSE IF log_time >= clock
  THEN TryResult("ValidationError", ERR_CREATE_WORKLOG_FUTURE_TIME, NoResponse, st,
                 0, 0, << >>, "none")
  ELSE create_and_save(
         st, NewWorklogDoc(employee_id, log_time, worklog_text, task, ticket_link),
         new_doc(fault),
         save(st, NewWorklogDoc(employee_id, log_time, worklog_text, task, ticket_link),
              clock, sess, fault))

\* create_worklog_try checking log_time before the text
create_worklog_try_time_first(st, employee_id, log_time, worklog_text, task, ticket_link, clock, sess, fault) ==
  IF log_time > clock
  THEN TryResult("ValidationError", ERR_CREATE_WORKLOG_FUTURE_TIME, NoResponse, st,
                 0, 0, << >>, "none")
  ELSE IF Len(worklog_text) = 0
  THEN TryResult("return", "", ResponseError(EMPTY_TASK_DESC, << >>), st,
                 0, 0, << >>, "none")
  ELSE create_and_save(
         st, NewWorklogDoc(employee_id, log_time, worklog_text, task, ticket_link),
         new_doc(fault),
         save(st, NewWorklogDoc(employee_id, log_time, worklog_text, task, ticket_link),
              clock, sess, fault))

\* create_worklog_try tolerating a log_time one tick after the clock
create_worklog_try_tolerates_a_tick(st, employee_id, log_time, worklog_text, task, ticket_link, clock, sess, fault) ==
  IF Len(worklog_text) = 0
  THEN TryResult("return", "", ResponseError(EMPTY_TASK_DESC, << >>), st,
                 0, 0, << >>, "none")
  ELSE IF log_time > clock + 1
  THEN TryResult("ValidationError", ERR_CREATE_WORKLOG_FUTURE_TIME, NoResponse, st,
                 0, 0, << >>, "none")
  ELSE create_and_save(
         st, NewWorklogDoc(employee_id, log_time, worklog_text, task, ticket_link),
         new_doc(fault),
         save(st, NewWorklogDoc(employee_id, log_time, worklog_text, task, ticket_link),
              clock, sess, fault))

\* the try block of create_worklog; clock is what datetime.now() reads
create_worklog_try(st, employee_id, log_time, worklog_text, task, ticket_link, clock, sess, fault) ==
  IF Len(worklog_text) = 0
  THEN TryResult("return", "", ResponseError(EMPTY_TASK_DESC, << >>), st,
                 0, 0, << >>, "none")
  ELSE IF log_time > clock
  THEN TryResult("ValidationError", ERR_CREATE_WORKLOG_FUTURE_TIME, NoResponse, st,
                 0, 0, << >>, "none")
  ELSE create_and_save(
         st, NewWorklogDoc(employee_id, log_time, worklog_text, task, ticket_link),
         new_doc(fault),
         save(st, NewWorklogDoc(employee_id, log_time, worklog_text, task, ticket_link),
              clock, sess, fault))

\* the arguments of a call of create_worklog
RepoArgs(employee_id, log_time, worklog_text, task, ticket_link) ==
  [employee_id |-> employee_id, log_time |-> log_time, worklog_text |-> worklog_text,
   task |-> task, ticket_link |-> ticket_link]

\* what a call of create_worklog with arguments a did.  raised: an exception
\* left the call (msg its text) instead of an envelope being returned
RepoResult(a, raised, msg, response, st, rollbackCalls, t) ==
  [args |-> a, raised |-> raised, msg |-> msg, response |-> response, store |-> st,
   new_doc |-> t.new_doc, save |-> t.save, rollback |-> rollbackCalls,
   saved |-> t.saved, failed_at |-> t.failed_at, failed_kind |-> t.exc,
   failed_msg |-> t.msg]

\* the handler of any other exception: rb is what frappe.db.rollback() did
create_worklog_except_Exception(a, t, rb) ==
  IF rb.exc # "none"
  THEN RepoResult(a, TRUE, rb.msg, NoResponse, rb.store, 1, t)
  ELSE RepoResult(a, FALSE, "", ResponseError(t.msg, << >>), rb.store, 1, t)

\* the handlers of create_worklog, applied to what its try block did
create_worklog_except(a, t, txnStart, fault) ==
  IF t.exc = "return"
  THEN RepoResult(a, FALSE, "", t.response, t.store, 0, t)
  ELSE IF t.exc = "ValidationError"
  THEN RepoResult(a, FALSE, "", ResponseError(t.msg, << >>), t.store, 0, t)
  ELSE create_worklog_except_Exception(a, t, rollback(t.store, txnStart, fault))

\* WorklogRepository.create_worklog
create_worklog(st, employee_id, log_time, worklog_text, task, ticket_link, clock, sess, fault) ==
  create_worklog_except(
    RepoArgs(employee_id, log_time, worklog_text, task, ticket_link),
    create_worklog_try(st, employee_id, log_time, worklog_text, task, ticket_link,
                       clock, sess, fault),
    Len(st), fault)

(***************************************************************************)
(* Worklog service (api/worklog/service.py).                               *)
(***************************************************************************)
\* get_current_employee_id(): the employee of the session user; fails when
\* no employee is mapped to the user
get_current_employee_id(sess) ==
  IF Truthy(sess)
  THEN [exc |-> "none", msg |-> "", value |-> sess]
  ELSE [exc |-> "Exception", msg |-> NOT_FOUND_EMPLOYEE, value |-> None]

\* check_if_employee_has_worklogs_today testing len(worklogs) >= 0
check_if_employee_has_worklogs_today_always(st, employee_id, clock) ==
  Len(get_worklogs_of_employee_on_date(st, employee_id, DateOf(clock))) >= 0

\* WorklogService.check_if_employee_has_worklogs_today; clock is the wall
\* clock date.today() reads
check_if_employee_has_worklogs_today(st, employee_id, clock) ==
  Len(get_worklogs_of_employee_on_date(st, employee_id, DateOf(clock))) > 0

\* a call of create_worklog that was not made
NoRepoCall ==
  RepoResult(RepoArgs(None, -1, << >>, None, None), FALSE, "", NoResponse, << >>, 0,
             TryResult("return", "", NoResponse, << >>, 0, 0, << >>, "none"))

\* what the try block of create_worklog_now did: exc and msg as in TryResult;
\* asked counts the calls of get_current_employee_id and session is what the
\* session held when asked; repo_create counts the calls of create_worklog
\* and repo is what that call did
ServiceTry(exc, msg, response, st, asked, session, repo_create, repo) ==
  [exc |-> exc, msg |-> msg, response |-> response, store |-> st, asked |-> asked,
   session |-> session, repo_create |-> repo_create, repo |-> repo]

\* create_worklog_now_result answering success whatever envelope came back
create_worklog_now_result_assumes_success(asked, session, r) ==
  IF r.raised
  THEN ServiceTry("Exception", r.msg, NoResponse, r.store, asked, session, 1, r)
  ELSE ServiceTry("return", "", ResponseSuccess(SUCCESS_WORKLOG_CREATION, << >>),
                  r.store, asked, session, 1, r)

\* create_worklog_now after the check of the text: r is what create_worklog did
create_worklog_now_result(asked, session, r) ==
  IF r.raised
  THEN ServiceTry("Exception", r.msg, NoResponse, r.store, asked, session, 1, r)
  ELSE ServiceTry("return", "", r.response, r.store, asked, session, 1, r)

\* create_worklog_now_checked testing the text without strip()
create_worklog_now_checked_unstripped(st, emp, asked, session, worklog_text, task, ticket_link, clock, clock2, sess, fault) ==
  IF Len(worklog_text) = 0
  THEN ServiceTry("ValueError", EMPTY_TASK_DESC, NoResponse, st, asked, session, 0,
                  NoRepoCall)
  ELSE create_worklog_now_result(
         asked, session,
         create_worklog(st, emp, clock, worklog_text, task, ticket_link,
                        clock2, sess, fault))

\* create_worklog_now_checked handing the stripped text to the repository
create_worklog_now_checked_strips(st, emp, asked, session, worklog_text, task, ticket_link, clock, clock2, sess, fault) ==
  IF Len(strip(worklog_text)) = 0
  THEN ServiceTry("ValueError", EMPTY_TASK_DESC, NoResponse, st, asked, session, 0,
                  NoRepoCall)
  ELSE create_worklog_now_result(
         asked, session,
         create_worklog(st, emp, clock, strip(worklog_text), task, ticket_link,
                        clock2, sess, fault))

\* create_worklog_now_checked stamping the record with the same time of the
\* day before
create_worklog_now_checked_day_before(st, emp, asked, session, worklog_text, task, ticket_link, clock, clock2, sess, fault) ==
  IF Len(strip(worklog_text)) = 0
  THEN ServiceTry("ValueError", EMPTY_TASK_DESC, NoResponse, st, asked, session, 0,
                  NoRepoCall)
  ELSE create_worklog_now_result(
         asked, session,
         create_worklog(st, emp, clock - TicksPerDay, worklog_text, task, ticket_link,
                        clock2, sess, fault))

\* create_worklog_now from the check of the text on: emp is the employee
\* given or resolved
create_worklog_now_checked(st, emp, asked, session, worklog_text, task, ticket_link, clock, clock2, sess, fault) ==
  IF Len(strip(worklog_text)) = 0
  THEN ServiceTry("ValueError", EMPTY_TASK_DESC, NoResponse, st, asked, session, 0,
                  NoRepoCall)
  ELSE create_worklog_now_result(
         asked, session,
         create_worklog(st, emp, clock, worklog_text, task, ticket_link,
                        clock2, sess, fault))

\* create_worklog_now with the employee omitted: g is what
\* get_current_employee_id did
create_worklog_now_omitted(st, g, worklog_text, task, ticket_link, clock, clock2, sess, fault) ==
  IF g.exc # "none"
  THEN ServiceTry(g.exc, g.msg, NoResponse, st, 1, sess, 0, NoRepoCall)
  ELSE create_worklog_now_checked(st, g.value, 1, sess, worklog_text, task,
                                  ticket_link, clock, clock2, sess, fault)

\* the try block of create_worklog_now.  clock is what datetime.now() reads
\* in the service, clock2 what it reads afterwards in the repository.
create_worklog_now_try(st, employee_id, worklog_text, task, ticket_link, clock, clock2, sess, fault) ==
  IF employee_id = None
  THEN create_worklog_now_omitted(st, get_current_employee_id(sess), worklog_text,
                                  task, ticket_link, clock, clock2, sess, fault)
  ELSE create_worklog_now_checked(st, employee_id, 0, None, worklog_text, task,
                                  ticket_link, clock, clock2, sess, fault)

\* what a call of create_worklog_now did
ServiceResult(raised, msg, response, t) ==
  [raised |-> raised, msg |-> msg, response |-> response, store |-> t.store,
   asked |-> t.asked, session |-> t.session, repo_create |-> t.repo_create,
   repo |-> t.repo, failed_kind |-> t.exc, failed_msg |-> t.msg]

\* create_worklog_now_except letting any exception but ValueError propagate
create_worklog_now_except_propagates(t) ==
  IF t.exc = "return"
  THEN ServiceResult(FALSE, "", t.response, t)
  ELSE IF t.exc = "ValueError"
  THEN ServiceResult(FALSE, "", ResponseError(t.msg, << >>), t)
  ELSE ServiceResult(TRUE, t.msg, NoResponse, t)

\* the handlers of create_worklog_now, applied to what its try block did
create_worklog_now_except(t) ==
  IF t.exc = "return"
  THEN ServiceResult(FALSE, "", t.response, t)
  ELSE IF t.exc = "ValueError"
  THEN ServiceResult(FALSE, "", ResponseError(t.msg, << >>), t)
  ELSE ServiceResult(FALSE, "", ResponseError(t.msg, << >>), t)

\* WorklogService.create_worklog_now
create_worklog_now(st, employee_id, worklog_text, task, ticket_link, clock, clock2, sess, fault) ==
  create_worklog_now_except(
    create_worklog_now_try(st, employee_id, worklog_text, task, ticket_link,
                           clock, clock2, sess, fault))

(***************************************************************************)
(* State machine.                                                          *)
(*                                                                         *)
(* now   : the wall clock, in ticks                                        *)
(* store : the persisted worklogs, in the order they were written          *)
(* last  : the most recent step and everything observable about it: the    *)
(*         operation called and its arguments (args), what it returned or  *)
(*         raised, the failure its try block ended with (failed_kind,      *)
(*         failed_msg), the calls it made to the session (asked, session), *)
(*         to the repository (repo_create, repo) and to the store, the     *)
(*         clock values it read (clock in the service, clock2 in the       *)
(*         repository; -1 when not read), the factory, message and data an *)
(*         envelope was built with (given) and what to_json made of it     *)
(*         (json), the document handed to save() outside the repository    *)
(*         (doc) and what before_save did with it (hook), and              *)
(*         the store as it was before                                      *)
(***************************************************************************)
Idle ==
  [op |-> "none", employee_id |-> None, date |-> -1,
   args |-> RepoArgs(None, -1, << >>, None, None),
   raised |-> FALSE, msg |-> "", response |-> NoResponse,
   rows |-> << >>, found |-> FALSE,
   asked |-> 0, session |-> None, failed_kind |-> "return", failed_msg |-> "",
   repo_create |-> 0, repo |-> NoRepoCall, get_all |-> 0, clock |-> -1, clock2 |-> -1,
   given |-> [factory |-> "", message |-> "", data |-> << >>], json |-> Encoded(<< >>),
   doc |-> << >>, hook |-> << >>,
   before |-> << >>]

Sessions == Employees \cup {None}

Init ==
  /\ now = 0
  /\ store = << >>
  /\ last = Idle

\* the wall clock advances
Tick ==
  /\ now < MaxTime
  /\ now' = now + 1
  /\ last' = [Idle EXCEPT !.op = "tick", !.before = store]
  /\ UNCHANGED store

\* the store's behaviours a call can meet: one that does not reach the store
\* meets none
FaultsMet(reaches) == IF reaches THEN Faults ELSE {NoFault}

\* the sessions a call can read: one that does not read the session reads none
SessionsRead(reads) == IF reads THEN Sessions ELSE {None}

\* create_worklog was called with args and did r
CreateWorklogDone(a, r) ==
  /\ store' = r.store
  /\ last' = [Idle EXCEPT
                !.op = "create_worklog", !.employee_id = a.employee_id, !.args = a,
                !.raised = r.raised, !.msg = r.msg, !.response = r.response,
                !.failed_kind = r.failed_kind, !.failed_msg = r.failed_msg,
                !.repo_create = 1, !.repo = [r EXCEPT !.store = << >>],
                !.clock2 = IF Len(a.worklog_text) = 0 THEN -1 ELSE now,
                !.before = store]
  /\ UNCHANGED now

\* a caller invokes WorklogRepository.create_worklog
CreateWorklog ==
  \E emp \in Employees, lt \in {t \in (now - 1) .. (now + 1) : t >= 0},
     sub \in Submissions :
  \E sess \in SessionsRead(~Truthy(emp)),
     f \in FaultsMet(Len(sub.worklog_text) > 0 /\ lt <= now) :
    /\ Len(store) < MaxStore
    /\ CreateWorklogDone(
         RepoArgs(emp, lt, sub.worklog_text, sub.task, sub.ticket_link),
         create_worklog(store, emp, lt, sub.worklog_text, sub.task, sub.ticket_link,
                        now, sess, f))

\* create_worklog_now was called with args, read the clocks and did r
CreateWorklogNowDone(a, clock, clock2, r) ==
  /\ store' = r.store
  /\ now' = IF r.repo_create = 1 THEN clock2 ELSE now
  /\ last' = [Idle EXCEPT
                !.op = "create_worklog_now", !.employee_id = a.employee_id,
                !.args = a,
                !.raised = r.raised, !.msg = r.msg, !.response = r.response,
                !.asked = r.asked, !.session = r.session,
                !.failed_kind = r.failed_kind, !.failed_msg = r.failed_msg,
                !.repo_create = r.repo_create,
                !.repo = [r.repo EXCEPT !.store = << >>],
                !.clock = IF r.repo_create = 1 THEN clock ELSE -1,
                !.clock2 = IF r.repo_create = 1 THEN clock2 ELSE -1,
                !.before = store]

\* a caller invokes WorklogService.create_worklog_now; between the clock read
\* of the service and the one of the repository the clock moves by d in Drift
CreateWorklogNow(Drift) ==
  \E emp \in Sessions, sub \in Submissions :
  \E sess \in SessionsRead(emp = None),
     d \in IF Len(strip(sub.worklog_text)) > 0 THEN Drift ELSE {0} :
  \E f \in FaultsMet(Len(strip(sub.worklog_text)) > 0 /\ d >= 0) :
    /\ Len(store) < MaxStore
    /\ now + d \in 0 .. MaxTime
    /\ CreateWorklogNowDone(
         RepoArgs(emp, -1, sub.worklog_text, sub.task, sub.ticket_link),
         now, now + d,
         create_worklog_now(store, emp, sub.worklog_text, sub.task, sub.ticket_link,
                            now, now + d, sess, f))

\* a caller invokes WorklogRepository.get_worklogs_of_employee_on_date
GetWorklogsOfEmployeeOnDate ==
  \E emp \in Employees, d \in Days :
    /\ last' = [Idle EXCEPT
                  !.op = "get_worklogs_of_employee_on_date", !.employee_id = emp,
                  !.date = d,
                  !.rows = get_worklogs_of_employee_on_date(store, emp, d),
                  !.get_all = 1, !.before = store]
    /\ UNCHANGED <<now, store>>

\* a caller invokes WorklogService.check_if_employee_has_worklogs_today
CheckIfEmployeeHasWorklogsToday ==
  \E emp \in Employees :
    /\ last' = [Idle EXCEPT
                  !.op = "check_if_employee_has_worklogs_today",
                  !.employee_id = emp,
                  !.found = check_if_employee_has_worklogs_today(store, emp, now),
                  !.get_all = 1, !.clock = now, !.before = store]
    /\ UNCHANGED <<now, store>>

\* the documents a user saves outside the repository: employee and log_time
\* filled in or left out, the description not blank
WorklogDocs ==
  { [employee |-> e, log_time |-> lt, task_desc |-> sub.worklog_text,
     task |-> sub.task, ticket_link |-> sub.ticket_link] :
      e \in Employees \cup {None, ""},
      lt \in {<< >>} \cup {<<t>> : t \in {u \in {now - 1} : u >= 0}},
      sub \in {x \in Submissions : Len(strip(x.worklog_text)) > 0} }

\* a Worklog document is saved outside the repository (Document.save()), the
\* store not failing: the hook runs, then the row is written
WorklogSave ==
  \E doc \in WorklogDocs :
  \E sess \in SessionsRead(~Truthy(doc.employee)) :
    /\ Len(store) < MaxStore
    /\ store' = save(store, doc, now, sess, NoFault).store
    /\ last' = [Idle EXCEPT
                  !.op = "save", !.doc = <<doc>>, !.session = sess, !.clock = now,
                  !.hook = <<before_save(doc, now, sess)>>,
                  !.raised = save(store, doc, now, sess, NoFault).exc # "none",
                  !.msg = save(store, doc, now, sess, NoFault).msg,
                  !.failed_kind = save(store, doc, now, sess, NoFault).exc,
                  !.before = store]
    /\ UNCHANGED now

Next ==
  \/ Tick
  \/ CreateWorklog
  \/ CreateWorklogNow(0 .. MaxDrift)
  \/ GetWorklogsOfEmployeeOnDate
  \/ CheckIfEmployeeHasWorklogsToday
  \/ WorklogSave

Spec == Init /\ [][Next]_vars

\* the same operations under a wall clock that can also be set back (by up to
\* MaxDrift ticks) between the two reads create_worklog_now makes
NextClockStepsBack ==
  \/ Tick
  \/ CreateWorklog
  \/ CreateWorklogNow((0 - MaxDrift) .. MaxDrift)
  \/ GetWorklogsOfEmployeeOnDate
  \/ CheckIfEmployeeHasWorklogsToday
  \/ WorklogSave

SpecClockStepsBack == Init /\ [][NextClockStepsBack]_vars

\* Response on its own: a caller holds a factory, a message and data
InitToJson ==
  /\ now = 0
  /\ store = << >>
  /\ \E factory \in {STATUS_SUCCESS, STATUS_ERROR}, message \in EnvelopeMessages,
        data \in EnvelopeData :
       last = [Idle EXCEPT
                 !.given = [factory |-> factory, message |-> message, data |-> data]]

\* the caller builds the envelope with Response.success or Response.error and
\* converts it with to_json
ToJson ==
  /\ last.op = "none"
  /\ last' = [last EXCEPT
                !.op = "to_json",
                !.response = IF last.given.factory = STATUS_SUCCESS
                             THEN ResponseSuccess(last.given.message, last.given.data)
                             ELSE ResponseError(last.given.message, last.given.data),
                !.json = to_json(IF last.given.factory = STATUS_SUCCESS
                                 THEN ResponseSuccess(last.given.message, last.given.data)
                                 ELSE ResponseError(last.given.message, last.given.data))]
  /\ UNCHANGED <<now, store>>

SpecToJson == InitToJson /\ [][ToJson]_vars

(***************************************************************************)
(* Properties.                                                             *)
(***************************************************************************)
\* a text that is empty or consists only of whitespace
AllWhitespace(text) == \A i \in 1 .. Len(text) : text[i] \in Whitespace

\* the last step was a call of WorklogService.create_worklog_now
CalledCreateWorklogNow == last.op = "create_worklog_now"

\* the last step called WorklogRepository.create_worklog, directly or
\* through the service
CalledCreateWorklog == last.repo_create = 1

\* the last step invoked no store operation and left the store as it was
NoStoreInteraction ==
  /\ last.repo.new_doc = 0
  /\ last.repo.save = 0
  /\ last.repo.rollback = 0
  /\ store = last.before

\* the row create_worklog persists for its arguments a
RowOfArgs(a) ==
  [employee |-> a.employee_id, log_time |-> a.log_time, task_desc |-> a.worklog_text,
   task |-> a.task, ticket_link |-> a.ticket_link]

\* C1 as stated: create_worklog_now with an empty or all-whitespace text
\* returns the error envelope with the 'empty task description' message for
\* every employee_id, given or omitted, and calls neither the repository nor
\* the store.
C1_BlankTextAlwaysEmptyDescMessage ==
  (CalledCreateWorklogNow /\ AllWhitespace(last.args.worklog_text)) =>
    /\ ~last.raised
    /\ last.response = ResponseError(EMPTY_TASK_DESC, << >>)
    /\ last.repo_create = 0
    /\ NoStoreInteraction

\* C1 amended: create_worklog_now with an empty or all-whitespace text returns
\* an error envelope and calls neither the repository nor the store; the
\* message is the 'empty task description' message when employee_id is given
\* or the session resolves to an employee, and the text of the resolution
\* failure when employee_id is omitted and the resolution fails.
C1_BlankTextRejected ==
  (CalledCreateWorklogNow /\ AllWhitespace(last.args.worklog_text)) =>
    /\ ~last.raised
    /\ last.response.status = STATUS_ERROR
    /\ last.response.data = << >>
    /\ last.response.message =
         IF last.args.employee_id = None /\ ~Truthy(last.session)
         THEN last.failed_msg
         ELSE EMPTY_TASK_DESC
    /\ (last.args.employee_id = None /\ ~Truthy(last.session))
         => (last.failed_kind = "Exception" /\ last.failed_msg = NOT_FOUND_EMPLOYEE)
    /\ last.repo_create = 0
    /\ NoStoreInteraction

\* C1 witness: a whitespace-only text with the employee omitted and resolved
\* from the session was rejected with the 'empty task description' message
C1_Witness ==
  /\ CalledCreateWorklogNow
  /\ last.args.worklog_text = <<" ">>
  /\ last.args.employee_id = None
  /\ last.asked = 1
  /\ last.session = "EMP001"
  /\ last.response = ResponseError(EMPTY_TASK_DESC, << >>)

\* C2: a call of create_worklog whose log_time is strictly greater than the
\* clock read at validation returns the error envelope with the 'future time'
\* message and does not invoke the store (no new record, save or rollback).
C2_FutureTimeRejected ==
  (CalledCreateWorklog /\ last.clock2 >= 0 /\ last.repo.args.log_time > last.clock2) =>
    /\ ~last.repo.raised
    /\ last.repo.response = ResponseError(ERR_CREATE_WORKLOG_FUTURE_TIME, << >>)
    /\ NoStoreInteraction

\* C2 witness: create_worklog was called with a log_time after the clock and
\* answered with the 'future time' envelope
C2_Witness ==
  /\ last.op = "create_worklog"
  /\ last.clock2 >= 0
  /\ last.args.log_time = last.clock2 + 1
  /\ last.response = ResponseError(ERR_CREATE_WORKLOG_FUTURE_TIME, << >>)

\* C3: a call of create_worklog with a non-empty text and a log_time not after
\* the clock read at validation (equal to it included), the store not
\* failing, invokes new-record and save exactly once each and no rollback,
\* saves a record with exactly the five given fields, persists it, and
\* returns the success envelope with the fixed confirmation message.
C3_ValidCreateSavesOnce ==
  (/\ CalledCreateWorklog
   /\ Len(last.repo.args.worklog_text) > 0
   /\ last.clock2 >= 0
   /\ last.repo.args.log_time <= last.clock2
   /\ last.repo.failed_at = "none") =>
    /\ last.repo.new_doc = 1
    /\ last.repo.save = 1
    /\ last.repo.rollback = 0
    /\ last.repo.saved =
         << [employee |-> last.repo.args.employee_id,
             log_time |-> <<last.repo.args.log_time>>,
             task_desc |-> last.repo.args.worklog_text,
             task |-> last.repo.args.task,
             ticket_link |-> last.repo.args.ticket_link] >>
    /\ store = Append(last.before, RowOfArgs(last.repo.args))
    /\ ~last.repo.raised
    /\ last.repo.response = ResponseSuccess(SUCCESS_WORKLOG_CREATION, << >>)

\* C3 witness: create_worklog was called with log_time exactly the clock read
\* at validation and succeeded
C3_Witness ==
  /\ last.op = "create_worklog"
  /\ Len(last.args.worklog_text) > 0
  /\ last.args.log_time = last.clock2
  /\ last.repo.save = 1
  /\ last.response.status = STATUS_SUCCESS

\* C4 as stated: when the store raises any failure while create_worklog
\* creates or saves the record, a validation failure included, create_worklog
\* invokes rollback exactly once and returns an error envelope whose message
\* is the failure's text, and no record of the call remains persisted
\* (rollback itself not failing).
C4_StoreFailureRolledBack ==
  (CalledCreateWorklog /\ last.repo.failed_at # "none" /\ ~last.repo.raised) =>
    /\ last.repo.rollback = 1
    /\ last.repo.response = ResponseError(last.repo.failed_msg, << >>)
    /\ store = last.before

\* the stored entries of employee emp whose log_time lies on date d, from its
\* first tick up to the last tick before the next date, as Worklogs
WorklogsOn(st, emp, d) ==
  LET rows == SelectSeq(st, LAMBDA r : /\ r.employee = emp
                                       /\ d * TicksPerDay <= r.log_time
                                       /\ r.log_time < (d + 1) * TicksPerDay)
  IN  [i \in 1 .. Len(rows) |->
         [employee_id |-> rows[i].employee, log_time |-> rows[i].log_time,
          task_desc |-> rows[i].task_desc, task |-> rows[i].task,
          ticket_link |-> rows[i].ticket_link]]

\* C5: get_worklogs_of_employee_on_date(emp, d) returns exactly one Worklog
\* for each stored entry of emp whose log_time lies in the closed interval
\* from d 00:00:00.000000 to d 23:59:59.999999 and nothing else (an empty
\* sequence when nothing matches), and leaves the store alone.
C5_QueryReturnsTheDay ==
  (last.op = "get_worklogs_of_employee_on_date") =>
    /\ last.rows = WorklogsOn(store, last.employee_id, last.date)
    /\ store = last.before

\* C5 witness: the query excluded an entry of the employee at the last tick of
\* the previous day and returned the one at the first tick of the day
C5_Witness ==
  /\ last.op = "get_worklogs_of_employee_on_date"
  /\ last.date >= 1
  /\ Len(store) = 2
  /\ store[1].employee = last.employee_id
  /\ store[2].employee = last.employee_id
  /\ store[1].log_time = last.date * TicksPerDay
  /\ store[2].log_time = last.date * TicksPerDay - 1
  /\ Len(last.rows) = 1
  /\ last.rows[1].log_time = store[1].log_time

\* C6: check_if_employee_has_worklogs_today(emp) is true exactly when the
\* store holds an entry of emp on the date of the clock at the call, false
\* otherwise, and the call does not modify the store.
C6_CheckIsExistenceToday ==
  (last.op = "check_if_employee_has_worklogs_today") =>
    /\ last.found = (Len(WorklogsOn(store, last.employee_id, last.clock \div TicksPerDay)) > 0)
    /\ store = last.before

\* C6 witness: with one entry of the employee today and one of yesterday the
\* check answered true
C6_Witness ==
  /\ last.op = "check_if_employee_has_worklogs_today"
  /\ last.found
  /\ Len(WorklogsOn(store, last.employee_id, last.clock \div TicksPerDay)) = 1
  /\ Len(WorklogsOn(store, last.employee_id, (last.clock \div TicksPerDay) - 1)) = 1

\* the arguments create_worklog_now hands to create_worklog for employee emp
ArgsHandedOn(emp) ==
  [employee_id |-> emp, log_time |-> last.clock,
   worklog_text |-> last.args.worklog_text, task |-> last.args.task,
   ticket_link |-> last.args.ticket_link]

\* C7: create_worklog_now with a text that is not blank: with employee_id
\* omitted and the session resolving to an employee, the session is asked
\* exactly once and create_worklog is called exactly once with the resolved
\* employee, the clock value read in the call, the text as given, the task and
\* the ticket link; with employee_id given the session is not asked and the
\* given employee is handed on.
C7_ArgumentsHandedOn ==
  (CalledCreateWorklogNow /\ ~AllWhitespace(last.args.worklog_text)) =>
    /\ (last.args.employee_id = None /\ Truthy(last.session)) =>
         /\ last.asked = 1
         /\ last.repo_create = 1
         /\ last.clock >= 0
         /\ last.repo.args = ArgsHandedOn(last.session)
    /\ (last.args.employee_id # None) =>
         /\ last.asked = 0
         /\ last.repo_create = 1
         /\ last.clock >= 0
         /\ last.repo.args = ArgsHandedOn(last.args.employee_id)

\* C7 witness: the employee was omitted, the session resolved to EMP002 and
\* the text 'a ' reached the repository with its trailing blank
C7_Witness ==
  /\ CalledCreateWorklogNow
  /\ last.args.employee_id = None
  /\ last.session = "EMP002"
  /\ last.args.worklog_text = <<"a", " ">>
  /\ last.repo_create = 1
  /\ last.repo.args.employee_id = "EMP002"
  /\ last.repo.args.worklog_text = <<"a", " ">>
  /\ last.repo.args.task = "TASK001"

\* create_worklog_now was called without employee_id and the session has no
\* employee for the user
ResolutionFailed ==
  /\ CalledCreateWorklogNow
  /\ last.args.employee_id = None
  /\ last.asked = 1
  /\ ~Truthy(last.session)

\* C8 as stated: when employee_id is omitted and resolving the employee from
\* the session fails, create_worklog_now does not catch the failure: it is
\* raised to the caller and no error envelope is returned.
C8_ResolutionFailurePropagates ==
  ResolutionFailed => (last.raised /\ last.response = NoResponse)

\* C8 amended: when employee_id is omitted and resolving the employee from the
\* session fails, create_worklog_now catches the failure and returns an error
\* envelope whose message is the failure's text; the repository and the store
\* are not called.
C8_ResolutionFailureReturned ==
  ResolutionFailed =>
    /\ ~last.raised
    /\ last.failed_kind = "Exception"
    /\ last.response = ResponseError(last.failed_msg, << >>)
    /\ last.response.message = NOT_FOUND_EMPLOYEE
    /\ last.repo_create = 0
    /\ NoStoreInteraction

\* C8 witness: a call with a valid text, no employee_id and no employee in
\* the session came back with an error envelope
C8_Witness ==
  /\ ResolutionFailed
  /\ last.args.worklog_text = <<"a", " ">>
  /\ last.response.status = STATUS_ERROR

\* C9: when create_worklog raises while called from create_worklog_now,
\* create_worklog_now does not raise and returns an error envelope whose
\* message is the exception's text; when create_worklog returns an envelope,
\* create_worklog_now returns that envelope unchanged.
C9_RepositoryOutcomeReturned ==
  (CalledCreateWorklogNow /\ last.repo_create = 1) =>
    /\ ~last.raised
    /\ last.repo.raised => last.response = ResponseError(last.repo.msg, << >>)
    /\ ~last.repo.raised => last.response = last.repo.response

\* C9 witness: create_worklog raised (its rollback failed) under
\* create_worklog_now, which returned the error envelope
C9_Witness ==
  /\ CalledCreateWorklogNow
  /\ last.repo_create = 1
  /\ last.repo.raised
  /\ last.repo.msg = ERR_ROLLBACK
  /\ last.response.status = STATUS_ERROR

\* C10: a call of create_worklog with an empty text returns the error envelope
\* with the 'empty task description' message whatever the log_time, one in
\* the future included, without any store interaction.
C10_EmptyTextRejectedFirst ==
  (last.op = "create_worklog" /\ Len(last.args.worklog_text) = 0) =>
    /\ ~last.raised
    /\ last.response = ResponseError(EMPTY_TASK_DESC, << >>)
    /\ last.clock2 = -1
    /\ NoStoreInteraction

\* C10 witness: create_worklog was called with an empty text and a log_time
\* after the clock and answered with the 'empty task description' envelope
C10_Witness ==
  /\ last.op = "create_worklog"
  /\ Len(last.args.worklog_text) = 0
  /\ last.args.log_time > now
  /\ last.response = ResponseError(EMPTY_TASK_DESC, << >>)

\* the keys of a dict, in order
DictKeys(d) == [i \in 1 .. Len(d.items) |-> d.items[i][1]]

\* the value of key k in a dict that has it
DictGet(d, k) == d.items[CHOOSE i \in 1 .. Len(d.items) : d.items[i][1] = k][2]

\* the data of an envelope as a Python value
DataValue(data) == IF Len(data) = 0 THEN PyNone ELSE data[1]

\* the types json.dumps accepts for a dict key
KeyTypes == {"str", "int", "float", "bool", "NoneType"}

\* a value json.dumps refuses: a datetime, or a dict, list or tuple that, at
\* any depth, holds a datetime or has a dict key of another type than KeyTypes
RECURSIVE Refused(_)
Refused(v) ==
  CASE v.type = "datetime" -> TRUE
    [] v.type = "dict" ->
         \E i \in 1 .. Len(v.items) :
           v.items[i][1].type \notin KeyTypes \/ Refused(v.items[i][2])
    [] v.type \in {"list", "tuple"} -> \E i \in 1 .. Len(v.elems) : Refused(v.elems[i])
    [] OTHER -> FALSE

\* a value made only of None, bool, int, str, finite floats, lists, and dicts
\* whose keys are all strs
RECURSIVE Plain(_)
Plain(v) ==
  CASE v.type \in {"NoneType", "bool", "int", "str"} -> TRUE
    [] v.type = "float" -> v.repr \notin {"nan", "inf", "-inf"}
    [] v.type = "list" -> \A i \in 1 .. Len(v.elems) : Plain(v.elems[i])
    [] v.type = "dict" ->
         \A i \in 1 .. Len(v.items) :
           v.items[i][1].type = "str" /\ Plain(v.items[i][2])
    [] OTHER -> FALSE

\* the text a dict key comes back as
KeyText(k) ==
  CASE k.type = "str" -> k.str
    [] k.type = "int" ->
         IF k.int < 0 THEN "-" \o Digits[(0 - k.int) + 1] ELSE Digits[k.int + 1]
    [] k.type = "float" ->
         IF k.repr = "nan" THEN "NaN"
         ELSE IF k.repr = "inf" THEN "Infinity"
         ELSE IF k.repr = "-inf" THEN "-Infinity"
         ELSE k.repr
    [] k.type = "bool" -> IF k.bool THEN "true" ELSE "false"
    [] k.type = "NoneType" -> "null"

\* items whose keys are equal merged into one, which stands where the first
\* of them stood and has the value of the last
Merged(items) ==
  LET n == Len(items)
      firsts == SelectSeq([i \in 1 .. n |-> i],
                          LAMBDA i : \A j \in 1 .. (i - 1) : items[j][1] # items[i][1])
      lastOf(i) == CHOOSE j \in i .. n :
                     /\ items[j][1] = items[i][1]
                     /\ \A k \in (j + 1) .. n : items[k][1] # items[i][1]
  IN  [p \in 1 .. Len(firsts) |-> <<items[firsts[p]][1], items[lastOf(firsts[p])][2]>>]

\* what a value json.dumps accepts comes back as: at every depth a tuple as
\* a list, a dict with each key as the str of its text and the items whose
\* keys have the same text merged; anything else as it is
RECURSIVE ComesBackAs(_)
ComesBackAs(v) ==
  CASE v.type \in {"list", "tuple"} ->
         PyList([i \in 1 .. Len(v.elems) |-> ComesBackAs(v.elems[i])])
    [] v.type = "dict" ->
         PyDict(Merged([i \in 1 .. Len(v.items) |->
                          <<PyStr(KeyText(v.items[i][1])), ComesBackAs(v.items[i][2])>>]))
    [] OTHER -> v

\* the envelope of the last step has the status of its factory and carries
\* the given message and data
BuiltAsGiven ==
  /\ last.response.status = last.given.factory
  /\ last.given.factory \in {STATUS_SUCCESS, STATUS_ERROR}
  /\ last.response.message = last.given.message
  /\ last.response.data = last.given.data

RowsAdded == SubSeq(store, Len(last.before) + 1, Len(store))

\* C12 as stated: every record persisted through create_worklog or
\* create_worklog_now has a task_desc that is non-empty after trimming
\* whitespace and a log_time less than or equal to the clock at which the
\* create operation validated it.
C12_PersistedRecordsValid ==
  CalledCreateWorklog =>
    \A i \in 1 .. Len(RowsAdded) :
      /\ Len(strip(RowsAdded[i].task_desc)) > 0
      /\ RowsAdded[i].log_time <= last.clock2

\* the last step saved a Worklog document outside the repository
SavedWorklog == last.op = "save"

\* C13: before_save defaults only absent fields.  A log_time already set is
\* left unchanged, one not set becomes the clock.  An employee already set is
\* left unchanged and the session is not consulted; one not set becomes the
\* employee of the session user, and when there is none the save is aborted
\* with the 'employee not found' failure and nothing is persisted.  No other
\* field is changed, and the record persisted is the one the hook left.
C13_HookDefaultsOnlyAbsentFields ==
  SavedWorklog =>
    LET given == last.doc[1]
        h == last.hook[1]
    IN  /\ h.doc.log_time = IF Len(given.log_time) > 0 THEN given.log_time
                            ELSE <<last.clock>>
        /\ h.doc.task_desc = given.task_desc
        /\ h.doc.task = given.task
        /\ h.doc.ticket_link = given.ticket_link
        /\ Truthy(given.employee) =>
             /\ h.exc = "none"
             /\ h.session = 0
             /\ h.doc.employee = given.employee
        /\ (~Truthy(given.employee) /\ Truthy(last.session)) =>
             /\ h.exc = "none"
             /\ h.session = 1
             /\ h.doc.employee = last.session
        /\ (~Truthy(given.employee) /\ ~Truthy(last.session)) =>
             /\ h.exc = "ValidationError"
             /\ h.msg = NOT_FOUND_EMPLOYEE
             /\ h.session = 1
             /\ h.doc.employee = given.employee
             /\ last.raised
             /\ last.msg = NOT_FOUND_EMPLOYEE
             /\ store = last.before
        /\ h.exc = "none" => (~last.raised /\ store = Append(last.before, Row(h.doc)))

\* C13 witness: a document with its log_time set and no employee was saved;
\* the hook kept the log_time and took the employee from the session
C13_Witness ==
  /\ SavedWorklog
  /\ Len(last.doc[1].log_time) > 0
  /\ last.doc[1].log_time[1] < last.clock
  /\ last.doc[1].employee = ""
  /\ last.session = "EMP002"
  /\ store = Append(last.before, [Row(last.doc[1]) EXCEPT !.employee = "EMP002"])

\* the last step was a call of create_worklog or of create_worklog_now
CalledCreate == last.op \in {"create_worklog", "create_worklog_now"}

\* C14 as stated: over any sequence of create, query and check calls the
\* persisted worklogs never shrink and none is modified; a create call
\* attempts the store's save at most once, adds exactly one record when it
\* returns the success envelope and none when it returns an error envelope;
\* query and check calls add none.  A second create for the same employee on
\* the same day is accepted like the first.
C14_StoreOnlyGrowsByOnePerSuccess ==
  /\ Len(store) >= Len(last.before)
  /\ SubSeq(store, 1, Len(last.before)) = last.before
  /\ CalledCreate =>
       /\ last.repo.save <= 1
       /\ (~last.raised /\ last.response.status = STATUS_SUCCESS)
            => Len(RowsAdded) = 1
       /\ (~last.raised /\ last.response.status = STATUS_ERROR)
            => Len(RowsAdded) = 0
  /\ last.op \in {"get_worklogs_of_employee_on_date",
                  "check_if_employee_has_worklogs_today"}
       => store = last.before

\* the step that is being taken added a row of employee e to the store
AddsRowOf(e) ==
  \E i \in (Len(store) + 1) .. Len(store') : store'[i].employee = e

\* the step that is being taken is a call of create_worklog_now that returns
\* the success envelope for employee e
CreatesNowFor(e) ==
  /\ last'.op = "create_worklog_now"
  /\ ~last'.raised
  /\ last'.response.status = STATUS_SUCCESS
  /\ last'.repo.args.employee_id = e

\* C15, one step of it.  The date of a creation is the date of the log_time
\* create_worklog_now stamped on the record.
\*  - after create_worklog_now returned success for e, the check for e is
\*    true while the clock is on the date of the creation;
\*  - a check for e that is true stays true over every step that leaves the
\*    date as it is, whatever the step does;
\*  - the creation changes the check of no other employee, at any clock;
\*  - a step that does not add a row of e leaves a false check for e false,
\*    and makes it false when it takes the clock to a later date.
C15_Step ==
  \A e \in Employees :
    /\ (CreatesNowFor(e) /\ DateOf(now') = DateOf(last'.clock))
         => check_if_employee_has_worklogs_today(store', e, now')
    /\ (check_if_employee_has_worklogs_today(store, e, now) /\ DateOf(now') = DateOf(now))
         => check_if_employee_has_worklogs_today(store', e, now')
    /\ CreatesNowFor(e) =>
         \A other \in Employees \ {e}, clock \in 0 .. MaxTime :
           check_if_employee_has_worklogs_today(store', other, clock)
             = check_if_employee_has_worklogs_today(store, other, clock)
    /\ (~AddsRowOf(e) /\ DateOf(now') = DateOf(now)
        /\ ~check_if_employee_has_worklogs_today(store, e, now))
         => ~check_if_employee_has_worklogs_today(store', e, now')
    /\ (~AddsRowOf(e) /\ DateOf(now') > DateOf(now))
         => ~check_if_employee_has_worklogs_today(store', e, now')

\* C15: read-your-write.  Once create_worklog_now has returned success for an
\* employee, every check for that employee made while the clock is still on
\* the date of that creation returns true, whatever creates and checks come
\* in between; the check of any other employee is not changed by the
\* creation; and once the date has advanced the check for the employee is
\* false until the employee logs again.
C15_ReadYourWrite == [][C15_Step]_vars

\* C15 witness: after entries of both employees were created today, a check
\* for EMP001 was made and answered true, the other employee's entry being
\* the later one
C15_Witness ==
  /\ last.op = "check_if_employee_has_worklogs_today"
  /\ last.employee_id = "EMP001"
  /\ last.found
  /\ Len(store) = 2
  /\ store[1].employee = "EMP001"
  /\ store[2].employee = "EMP002"
  /\ DateOf(store[1].log_time) = DateOf(now)
  /\ DateOf(store[2].log_time) = DateOf(now)

\* C16: create_worklog_now reads the clock for log_time and the repository
\* reads it again for the comparison.  When the second read is not before the
\* first, however far after it, create_worklog_now does not return the
\* 'future time' envelope; when the clock was set back between the two reads,
\* the call, its input being valid, returns the 'future time' error envelope
\* and persists nothing.
C16_FutureTimeIffClockSteppedBack ==
  (CalledCreateWorklogNow /\ last.repo_create = 1) =>
    /\ last.repo.args.log_time = last.clock
    /\ last.clock2 >= last.clock =>
         /\ last.response.message # ERR_CREATE_WORKLOG_FUTURE_TIME
         /\ last.repo.failed_msg # ERR_CREATE_WORKLOG_FUTURE_TIME
    /\ last.clock2 < last.clock =>
         /\ ~last.raised
         /\ last.response = ResponseError(ERR_CREATE_WORKLOG_FUTURE_TIME, << >>)
         /\ NoStoreInteraction

\* C16 witness: a call with a valid text and a given employee read the clock,
\* the clock was set back before the repository read it, and the call came
\* back with the 'future time' error
C16_Witness ==
  /\ CalledCreateWorklogNow
  /\ last.args.employee_id = "EMP001"
  /\ last.args.worklog_text = <<"a", " ">>
  /\ last.clock2 < last.clock
  /\ last.response = ResponseError(ERR_CREATE_WORKLOG_FUTURE_TIME, << >>)
  /\ store = last.before

====
